---- MODULE Spec2Model ----
(***************************************************************************)
(* Family expense tracker (script.js): the in-memory transaction list, its  *)
(* persisted mirror in localStorage, the submit / delete / filter handlers, *)
(* the totals and the week / month report filter.                           *)
(*                                                                          *)
(* Conventions of the model                                                 *)
(*   - a JavaScript string is a sequence of chunks (TLA+ strings); the      *)
(*     texts typed into the form are sequences of single characters;        *)
(*   - an amount is a whole number of currency units (the texts offered to  *)
(*     the amount field have no fraction, exponent or "Infinity");          *)
(*   - the persisted value is a sequence of JSON tokens (lexing is          *)
(*     abstracted, the grammar is not);                                     *)
(*   - a calendar date is the ordinal of a day of 2024 (1 = 1 January, a    *)
(*     Monday); an instant is ordinal * TicksPerDay + tick.                 *)
(***************************************************************************)
EXTENDS Integers, Sequences, FiniteSets, TLC

VARIABLES
    phase,          \* "loading" before init() has run, "ready" after it completed, "failed" when it threw
    transactions,   \* entries of the array held by `transactions` (line 3)
    storeType,      \* JavaScript type of the value held by `transactions`: "array", "null", "number", "string", "object"
    currentFilter,  \* line 4
    localStorage,   \* the entry under STORAGE_KEY: [present, text]
    errorText,      \* elements.error.textContent
    summary,        \* the totals shown by renderSummary
    tableRows,      \* the entries shown by renderTransactions (empty = the empty-state row)
    uuidCount,      \* number of identifiers crypto.randomUUID has handed out
    lastSave,       \* outcome of the session's most recent saveTransactionsToStorage: "none", "ok", "failed"
    consoleError,   \* what the most recent handler passed to console.error ("" if nothing)
    uncaught,       \* the most recent handler ended with an uncaught exception
    writeFailures,  \* number of localStorage.setItem calls that have thrown
    now,            \* the clock read by new Date(): [day, tick]
    report          \* the document written to the report window by the last downloadReport

vars == <<phase, transactions, storeType, currentFilter, localStorage, errorText,
          summary, tableRows, uuidCount, lastSave, consoleError, uncaught,
          writeFailures, now, report>>

(***************************************************************************)
(* Bounds                                                                   *)
(***************************************************************************)
MaxUuids == 3
MaxWriteFailures == 1
TicksPerDay == 2
MaxReportLen == 2

(***************************************************************************)
(* Strings                                                                  *)
(***************************************************************************)
STORAGE_KEY == <<"family_expenses">>

RECURSIVE TrimStart(_)
TrimStart(s) ==
    IF s = <<>> THEN s
    ELSE IF Head(s) = " " THEN TrimStart(Tail(s)) ELSE s

RECURSIVE TrimEnd(_)
TrimEnd(s) ==
    IF s = <<>> THEN s
    ELSE IF s[Len(s)] = " " THEN TrimEnd(SubSeq(s, 1, Len(s) - 1)) ELSE s

\* String.prototype.trim
trim(s) == TrimEnd(TrimStart(s))

Digits == <<"0", "1", "2", "3", "4", "5", "6", "7", "8", "9">>

IsDigit(c) == \E i \in 1..10 : Digits[i] = c

DigitValue(c) == (CHOOSE i \in 1..10 : Digits[i] = c) - 1

\* the longest prefix of s made of decimal digits
RECURSIVE DigitPrefix(_)
DigitPrefix(s) ==
    IF s = <<>> \/ ~IsDigit(Head(s)) THEN <<>>
    ELSE <<Head(s)>> \o DigitPrefix(Tail(s))

RECURSIVE DigitsValue(_, _)
DigitsValue(s, acc) ==
    IF s = <<>> THEN acc
    ELSE DigitsValue(Tail(s), acc * 10 + DigitValue(Head(s)))

NaN == [nan |-> TRUE, val |-> 0]

Num(n) == [nan |-> FALSE, val |-> n]

\* parseFloat: leading white space skipped, optional sign, then the longest
\* numeric prefix; NaN when there is none.  Trailing characters are ignored.
parseFloat(text) ==
    LET s    == TrimStart(text)
        neg  == s # <<>> /\ Head(s) = "-"
        body == IF s # <<>> /\ Head(s) \in {"-", "+"} THEN Tail(s) ELSE s
        ds   == DigitPrefix(body)
    IN  IF ds = <<>> THEN NaN
        ELSE Num(IF neg THEN 0 - DigitsValue(ds, 0) ELSE DigitsValue(ds, 0))

\* Number -> decimal text, as JSON.stringify writes a finite integer
RECURSIVE NatText(_)
NatText(n) ==
    IF n < 10 THEN <<Digits[n + 1]>>
    ELSE NatText(n \div 10) \o <<Digits[(n % 10) + 1]>>

NumberText(n) == IF n < 0 THEN <<"-">> \o NatText(0 - n) ELSE NatText(n)

\* decimal text -> number, as JSON.parse reads a number token
TextNumber(s) ==
    IF s # <<>> /\ Head(s) = "-" THEN 0 - DigitsValue(Tail(s), 0)
    ELSE DigitsValue(s, 0)

(***************************************************************************)
(* Transactions                                                             *)
(***************************************************************************)
INCOME == <<"income">>

EXPENSE == <<"expense">>

Uncategorized == <<"Uncategorized">>

\* crypto.randomUUID(): the n-th identifier handed out
randomUUID(n) == <<"uuid">> \o NatText(n)

\* the object literal of handleSubmit
Transaction(id, type, amount, description, category, date) ==
    [id |-> id, type |-> type, amount |-> amount, description |-> description,
     category |-> category, date |-> date]

(***************************************************************************)
(* JSON                                                                     *)
(***************************************************************************)
Punct(c) == [t |-> "punct", v |-> <<c>>]

StringToken(s) == [t |-> "string", v |-> s]

NumberToken(n) == [t |-> "number", v |-> NumberText(n)]

WordToken(w) == [t |-> "word", v |-> <<w>>]

IsPunct(tok, c) == tok.t = "punct" /\ tok.v = <<c>>

Member(key, valueToken) == <<StringToken(<<key>>), Punct(":"), valueToken>>

\* JSON.stringify of one transaction object: the own properties in insertion order
StringifyObject(tx) ==
    <<Punct("{")>>
    \o Member("id", StringToken(tx.id)) \o <<Punct(",")>>
    \o Member("type", StringToken(tx.type)) \o <<Punct(",")>>
    \o Member("amount", NumberToken(tx.amount)) \o <<Punct(",")>>
    \o Member("description", StringToken(tx.description)) \o <<Punct(",")>>
    \o Member("category", StringToken(tx.category)) \o <<Punct(",")>>
    \o Member("date", StringToken(tx.date))
    \o <<Punct("}")>>

RECURSIVE StringifyElements(_)
StringifyElements(list) ==
    IF list = <<>> THEN <<>>
    ELSE IF Len(list) = 1 THEN StringifyObject(list[1])
    ELSE StringifyObject(Head(list)) \o <<Punct(",")>> \o StringifyElements(Tail(list))

\* JSON.stringify(transactions)
JSONstringify(list) == <<Punct("[")>> \o StringifyElements(list) \o <<Punct("]")>>

SyntaxError == [ok |-> FALSE, val |-> [k |-> "null"], rest |-> <<>>]

Parsed(value, rest) == [ok |-> TRUE, val |-> value, rest |-> rest]

RECURSIVE ParseValue(_)
RECURSIVE ParseElements(_, _)
RECURSIVE ParseMembers(_, _)

\* the elements of an array after "[" or ",": value ("," value)* "]"
ParseElements(ts, acc) ==
    LET r == ParseValue(ts)
    IN  IF ~r.ok \/ r.rest = <<>> THEN SyntaxError
        ELSE IF IsPunct(Head(r.rest), ",")
             THEN ParseElements(Tail(r.rest), Append(acc, r.val))
        ELSE IF IsPunct(Head(r.rest), "]")
             THEN Parsed([k |-> "array", a |-> Append(acc, r.val)], Tail(r.rest))
        ELSE SyntaxError

\* the members of an object after "{" or ",": string ":" value ("," ...)* "}"
ParseMembers(ts, acc) ==
    IF Len(ts) < 2 \/ ts[1].t # "string" \/ ~IsPunct(ts[2], ":") THEN SyntaxError
    ELSE LET r == ParseValue(SubSeq(ts, 3, Len(ts)))
             m == [key |-> ts[1].v, val |-> r.val]
         IN  IF ~r.ok \/ r.rest = <<>> THEN SyntaxError
             ELSE IF IsPunct(Head(r.rest), ",")
                  THEN ParseMembers(Tail(r.rest), Append(acc, m))
             ELSE IF IsPunct(Head(r.rest), "}")
                  THEN Parsed([k |-> "object", m |-> Append(acc, m)], Tail(r.rest))
             ELSE SyntaxError

ParseValue(ts) ==
    IF ts = <<>> THEN SyntaxError
    ELSE LET tok == Head(ts)
             rest == Tail(ts)
         IN  CASE tok.t = "number" -> Parsed([k |-> "number", n |-> TextNumber(tok.v)], rest)
               [] tok.t = "string" -> Parsed([k |-> "string", s |-> tok.v], rest)
               [] tok.t = "word" ->
                    IF tok.v = <<"null">> THEN Parsed([k |-> "null"], rest)
                    ELSE IF tok.v \in {<<"true">>, <<"false">>}
                         THEN Parsed([k |-> "boolean"], rest)
                    ELSE SyntaxError
               [] IsPunct(tok, "[") ->
                    IF rest # <<>> /\ IsPunct(Head(rest), "]")
                    THEN Parsed([k |-> "array", a |-> <<>>], Tail(rest))
                    ELSE ParseElements(rest, <<>>)
               [] IsPunct(tok, "{") ->
                    IF rest # <<>> /\ IsPunct(Head(rest), "}")
                    THEN Parsed([k |-> "object", m |-> <<>>], Tail(rest))
                    ELSE ParseMembers(rest, <<>>)
               [] OTHER -> SyntaxError

\* JSON.parse(text): a value, or a SyntaxError when the text is not one value
JSONparse(text) ==
    LET r == ParseValue(text)
    IN  IF r.ok /\ r.rest = <<>> THEN r ELSE SyntaxError

FieldNames == <<"id", "type", "amount", "description", "category", "date">>

HasMember(obj, key) == \E i \in 1..Len(obj.m) : obj.m[i].key = <<key>>

\* obj[key]: the last member written under the key
Field(obj, key) ==
    obj.m[CHOOSE i \in 1..Len(obj.m) :
            /\ obj.m[i].key = <<key>>
            /\ \A j \in (i + 1)..Len(obj.m) : obj.m[j].key # <<key>>]

\* a parsed value that is an object with the six fields of a transaction
IsTransactionObject(v) ==
    /\ v.k = "object"
    /\ \A i \in 1..6 : HasMember(v, FieldNames[i])
    /\ \A i \in 1..6 :
         Field(v, FieldNames[i]).val.k = (IF FieldNames[i] = "amount" THEN "number" ELSE "string")

AsTransaction(v) ==
    Transaction(Field(v, "id").val.s, Field(v, "type").val.s, Field(v, "amount").val.n,
                Field(v, "description").val.s, Field(v, "category").val.s,
                Field(v, "date").val.s)

(***************************************************************************)
(* Storage adapter                                                          *)
(***************************************************************************)
NoItem == [present |-> FALSE, text |-> <<>>]

Item(text) == [present |-> TRUE, text |-> text]

\* `if (stored)`: getItem returned a non-empty string
Truthy(storage) == storage.present /\ storage.text # <<>>

\* The value `transactions` holds after loadTransactionsFromStorage, started
\* from the value [list, type] it held before, and what was logged.  The
\* parsed value is assigned as it is; of the arrays that hold something other
\* than transaction objects, only those with a null entry are offered to it.
loadTransactionsFromStorage(storage, list, type) ==
    IF ~Truthy(storage)
    THEN [transactions |-> list, storeType |-> type, logged |-> <<>>]
    ELSE LET r == JSONparse(storage.text)
         IN  IF ~r.ok
             THEN [transactions |-> <<>>, storeType |-> "array",
                   logged |-> <<"Failed to load transactions:">>]
             ELSE IF r.val.k # "array"
             THEN [transactions |-> <<>>, storeType |-> r.val.k, logged |-> <<>>]
             ELSE IF \A i \in 1..Len(r.val.a) : IsTransactionObject(r.val.a[i])
             THEN [transactions |-> [i \in 1..Len(r.val.a) |-> AsTransaction(r.val.a[i])],
                   storeType |-> "array", logged |-> <<>>]
             ELSE [transactions |-> <<>>, storeType |-> "array of other values",
                   logged |-> <<>>]

\* mutant: nothing is written when the list is empty
saveTransactionsToStorage_skipsEmpty(storage, list, writeOk) ==
    IF writeOk /\ list # <<>>
    THEN [storage |-> Item(JSONstringify(list)), outcome |-> "ok", logged |-> <<>>,
          threw |-> FALSE]
    ELSE IF writeOk
    THEN [storage |-> storage, outcome |-> "ok", logged |-> <<>>, threw |-> FALSE]
    ELSE [storage |-> storage, outcome |-> "failed",
          logged |-> <<"Failed to save transactions:">>, threw |-> FALSE]

\* mutant: the exception of a failed setItem is logged and thrown again
saveTransactionsToStorage_rethrows(storage, list, writeOk) ==
    IF writeOk
    THEN [storage |-> Item(JSONstringify(list)), outcome |-> "ok", logged |-> <<>>,
          threw |-> FALSE]
    ELSE [storage |-> storage, outcome |-> "failed",
          logged |-> <<"Failed to save transactions:">>, threw |-> TRUE]

\* saveTransactionsToStorage: the entry afterwards, the outcome, and whether
\* the exception of a failed setItem leaves the function (it never does)
saveTransactionsToStorage(storage, list, writeOk) ==
    IF writeOk
    THEN [storage |-> Item(JSONstringify(list)), outcome |-> "ok", logged |-> <<>>,
          threw |-> FALSE]
    ELSE [storage |-> storage, outcome |-> "failed",
          logged |-> <<"Failed to save transactions:">>, threw |-> FALSE]

(***************************************************************************)
(* Store, totals and type filter                                            *)
(***************************************************************************)
ALL == <<"all">>

\* calculateTotals: one pass in list order, income into `income`, every other
\* entry into `expense`
RECURSIVE TotalsFrom(_, _, _)
TotalsFrom(list, income, expense) ==
    IF list = <<>>
    THEN [income |-> income, expense |-> expense, balance |-> income - expense]
    ELSE IF Head(list).type = INCOME
         THEN TotalsFrom(Tail(list), income + Head(list).amount, expense)
         ELSE TotalsFrom(Tail(list), income, expense + Head(list).amount)

\* mutant: the balance adds the expenses
calculateTotals_addsExpense(list) ==
    LET totals == TotalsFrom(list, 0, 0)
    IN  [totals EXCEPT !.balance = totals.income + totals.expense]

calculateTotals(list) == TotalsFrom(list, 0, 0)

\* mutant: "all" is treated as one more type
filterTransactionsByType_noAll(list, filter) ==
    SelectSeq(list, LAMBDA t : t.type = filter)

filterTransactionsByType(list, filter) ==
    IF filter = ALL THEN list
    ELSE SelectSeq(list, LAMBDA t : t.type = filter)

\* renderAll throws a TypeError when `transactions` is not an array
\* (transactions.forEach, line 129) or holds an entry that is no object
\* (t.type, line 130)
renderThrows(type) == type # "array"

\* renderAll: what renderSummary and renderTransactions put on the page
renderAll(list, filter) ==
    [summary |-> calculateTotals(list), rows |-> filterTransactionsByType(list, filter)]

\* mutant: splice(findIndex(...), 1), which removes the last entry when none matches
deleteFromList_splice(list, id) ==
    IF list = <<>> THEN list
    ELSE IF \E i \in 1..Len(list) : list[i].id = id
    THEN LET at == CHOOSE i \in 1..Len(list) :
                     list[i].id = id /\ \A j \in 1..(i - 1) : list[j].id # id
         IN  SubSeq(list, 1, at - 1) \o SubSeq(list, at + 1, Len(list))
    ELSE SubSeq(list, 1, Len(list) - 1)

\* mutant: the comparison is the wrong way round
deleteFromList_keepsMatch(list, id) == SelectSeq(list, LAMBDA t : t.id = id)

\* transactions.filter((t) => t.id !== id)
deleteFromList(list, id) == SelectSeq(list, LAMBDA t : t.id # id)

\* addTransaction: push, save, render (the render is skipped when the save throws)
addTransaction(list, tx, storage, filter, shown, writeOk) ==
    LET pushed == Append(list, tx)
        saved  == saveTransactionsToStorage(storage, pushed, writeOk)
    IN  [transactions |-> pushed, save |-> saved,
         shown |-> IF saved.threw THEN shown ELSE renderAll(pushed, filter)]

\* deleteTransaction: filter, save, render
deleteTransaction(list, id, storage, filter, shown, writeOk) ==
    LET kept  == deleteFromList(list, id)
        saved == saveTransactionsToStorage(storage, kept, writeOk)
    IN  [transactions |-> kept, save |-> saved,
         shown |-> IF saved.threw THEN shown ELSE renderAll(kept, filter)]

\* mutant: the sign of the amount is not looked at
failsValidation_noSign(description, amount, date) ==
    \/ description = <<>>
    \/ amount.nan
    \/ date = <<>>

\* mutant: the date is not looked at
failsValidation_noDate(description, amount, date) ==
    \/ description = <<>>
    \/ amount.nan
    \/ (~amount.nan /\ amount.val <= 0)

\* the condition of line 59
failsValidation(description, amount, date) ==
    \/ description = <<>>
    \/ amount.nan
    \/ (~amount.nan /\ amount.val <= 0)
    \/ date = <<>>

ValidationMessage == <<"Please enter a valid amount, date, and description.">>

(***************************************************************************)
(* Calendar and range filter                                                *)
(***************************************************************************)
MonthLengths == <<31, 29, 31, 30, 31, 30, 31, 31, 30, 31, 30, 31>>

\* ordinal of the first day of month m (0 = January; 12 = January of the next year)
RECURSIVE FirstOfMonth(_)
FirstOfMonth(m) == IF m = 0 THEN 1 ELSE FirstOfMonth(m - 1) + MonthLengths[m]

\* Date.prototype.getMonth, getDate, getDay on a day of 2024
getMonth(day) == CHOOSE m \in 0..11 : FirstOfMonth(m) <= day /\ day < FirstOfMonth(m + 1)

getDate(day) == day - FirstOfMonth(getMonth(day)) + 1

getDay(day) == day % 7

\* new Date(year, month, date) and setDate: a day of the month outside the
\* month rolls over into the neighbouring months
DayOf(month, date) == FirstOfMonth(month) + date - 1

Instant(d) == d.day * TicksPerDay + d.tick

InvalidDate == [day |-> 0, tick |-> 0, valid |-> FALSE]

\* new Date(dateStr + "T00:00:00"): local midnight of a YYYY-MM-DD text
DateAtMidnight(text) ==
    IF /\ Len(text) = 10
       /\ text[5] = "-" /\ text[8] = "-"
       /\ \A i \in {1, 2, 3, 4, 6, 7, 9, 10} : IsDigit(text[i])
       /\ DigitsValue(SubSeq(text, 6, 7), 0) \in 1..12
       /\ DigitsValue(SubSeq(text, 9, 10), 0) \in 1..31
    THEN [day |-> DayOf(DigitsValue(SubSeq(text, 6, 7), 0) - 1,
                        DigitsValue(SubSeq(text, 9, 10), 0)),
          tick |-> 0, valid |-> TRUE]
    ELSE InvalidDate

\* mutant: Sunday is not treated apart
startOfCurrentWeek_noSundayCase(clock) ==
    LET day  == getDay(clock.day)
        diff == 1 - day
    IN  [day |-> DayOf(getMonth(clock.day), getDate(clock.day) + diff), tick |-> 0]

startOfCurrentWeek(clock) ==
    LET day  == getDay(clock.day)
        diff == (IF day = 0 THEN -6 ELSE 1) - day
    IN  [day |-> DayOf(getMonth(clock.day), getDate(clock.day) + diff), tick |-> 0]

endOfCurrentWeek(clock) ==
    LET start == startOfCurrentWeek(clock)
    IN  [day |-> DayOf(getMonth(start.day), getDate(start.day) + 6),
         tick |-> TicksPerDay - 1]

startOfCurrentMonth(clock) == [day |-> DayOf(getMonth(clock.day), 1), tick |-> 0]

endOfCurrentMonth(clock) ==
    [day |-> DayOf(getMonth(clock.day) + 1, 0), tick |-> TicksPerDay - 1]

filterByRange(list, range, clock) ==
    LET start == IF range = "week" THEN startOfCurrentWeek(clock)
                 ELSE startOfCurrentMonth(clock)
        end   == IF range = "week" THEN endOfCurrentWeek(clock)
                 ELSE endOfCurrentMonth(clock)
    IN  SelectSeq(list, LAMBDA t :
            LET d == DateAtMidnight(t.date)
            IN  d.valid /\ Instant(d) >= Instant(start) /\ Instant(d) <= Instant(end))

\* the reduce of downloadReport and the balance computed after it
RECURSIVE ReportTotals(_, _)
ReportTotals(scoped, acc) ==
    IF scoped = <<>> THEN acc
    ELSE ReportTotals(Tail(scoped),
            IF Head(scoped).type = INCOME
            THEN [acc EXCEPT !.income = @ + Head(scoped).amount]
            ELSE [acc EXCEPT !.expense = @ + Head(scoped).amount])

NoReport == [written |-> FALSE, range |-> "none", rows |-> <<>>,
             income |-> 0, expense |-> 0, balance |-> 0]

\* downloadReport: the document written to the report window; when
\* window.open returned null nothing is written and `previous` stands
downloadReport(list, range, clock, popupOk, previous) ==
    LET scoped == filterByRange(list, range, clock)
        totals == ReportTotals(scoped, [income |-> 0, expense |-> 0])
        balance == totals.income - totals.expense
    IN  IF ~popupOk THEN previous
        ELSE [written |-> TRUE, range |-> range, rows |-> scoped,
              income |-> totals.income, expense |-> totals.expense, balance |-> balance]

(***************************************************************************)
(* What the user can put into the form and what the clock can read          *)
(***************************************************************************)
TypeOptions == {INCOME, EXPENSE}

AmountTexts == { <<"a">>, <<"0">>, <<"-", "5">>, <<" ", "1", "2">> }

DescriptionTexts == { <<>>, <<" ", " ">>, <<" ", "t", "e", "a", " ">> }

CategoryTexts == { <<>>, <<" ">>, <<"f", "o", "o", "d">> }

\* the category field left blank: the category plays no part in the store's
\* operations, and the sessions of Next leave it out
NoCategory == <<" ">>

TwoDigits(n) == <<Digits[(n \div 10) + 1], Digits[(n % 10) + 1]>>

\* the value of a date input for a day of 2024: YYYY-MM-DD
DateText(day) ==
    <<"2", "0", "2", "4", "-">> \o TwoDigits(getMonth(day) + 1)
    \o <<"-">> \o TwoDigits(getDate(day))

\* Monday 29 January 2024, the week that runs into February
WeekMonday == DayOf(0, 29)

DateTexts == { <<>>, DateText(WeekMonday) }

FilterTargets == { ALL, INCOME, EXPENSE, <<>> }

IdSpace == { randomUUID(n) : n \in 1..MaxUuids }

BlankSummary == [income |-> 0, expense |-> 0, balance |-> 0]

(***************************************************************************)
(* Page load                                                                *)
(***************************************************************************)
\* the module's top level (lines 3-4) on a page whose storage holds `storage`
PageLoaded(storage, clock, uuids, failures) ==
    /\ phase = "loading"
    /\ transactions = <<>>
    /\ storeType = "array"
    /\ currentFilter = ALL
    /\ localStorage = storage
    /\ errorText = <<>>
    /\ summary = BlankSummary
    /\ tableRows = <<>>
    /\ uuidCount = uuids
    /\ lastSave = "none"
    /\ consoleError = <<>>
    /\ uncaught = FALSE
    /\ writeFailures = failures
    /\ now = clock
    /\ report = NoReport

Init == PageLoaded(NoItem, [day |-> WeekMonday, tick |-> 0], 0, 0)

\* init(), run on DOMContentLoaded: load, render, attach the handlers
DomContentLoaded ==
    /\ phase = "loading"
    /\ LET l == loadTransactionsFromStorage(localStorage, transactions, storeType)
       IN  /\ transactions' = l.transactions
           /\ storeType' = l.storeType
           /\ consoleError' = l.logged
           /\ IF renderThrows(l.storeType)
              THEN /\ phase' = "failed"
                   /\ uncaught' = TRUE
                   /\ UNCHANGED <<summary, tableRows>>
              ELSE /\ phase' = "ready"
                   /\ uncaught' = FALSE
                   /\ summary' = renderAll(l.transactions, currentFilter).summary
                   /\ tableRows' = renderAll(l.transactions, currentFilter).rows
    /\ UNCHANGED <<currentFilter, localStorage, errorText, uuidCount, lastSave,
                   writeFailures, now, report>>

\* the page is loaded again: a new session over the same storage
Reload ==
    /\ phase # "loading"
    /\ phase' = "loading"
    /\ transactions' = <<>>
    /\ storeType' = "array"
    /\ currentFilter' = ALL
    /\ errorText' = <<>>
    /\ summary' = BlankSummary
    /\ tableRows' = <<>>
    /\ lastSave' = "none"
    /\ consoleError' = <<>>
    /\ uncaught' = FALSE
    /\ report' = NoReport
    /\ UNCHANGED <<localStorage, uuidCount, writeFailures, now>>

(***************************************************************************)
(* Event handlers                                                           *)
(***************************************************************************)
\* the effect of addTransaction / deleteTransaction on the state
Mutate(m) ==
    /\ transactions' = m.transactions
    /\ localStorage' = m.save.storage
    /\ lastSave' = m.save.outcome
    /\ consoleError' = m.save.logged
    /\ uncaught' = m.save.threw
    /\ summary' = m.shown.summary
    /\ tableRows' = m.shown.rows
    /\ writeFailures' = writeFailures + (IF m.save.outcome = "failed" THEN 1 ELSE 0)

Shown == [summary |-> summary, rows |-> tableRows]

MayWrite(writeOk) == writeOk \/ writeFailures < MaxWriteFailures

HandleSubmit(type, amountText, descriptionText, categoryText, dateText, writeOk) ==
    /\ phase = "ready"
    /\ LET amount      == parseFloat(amountText)
           description == trim(descriptionText)
           category    == trim(categoryText)
           date        == dateText
       IN  IF failsValidation(description, amount, date)
           THEN /\ writeOk
                /\ errorText' = ValidationMessage
                /\ consoleError' = <<>>
                /\ uncaught' = FALSE
                /\ UNCHANGED <<transactions, localStorage, lastSave, summary,
                               tableRows, uuidCount, writeFailures>>
           ELSE /\ uuidCount < MaxUuids
                /\ MayWrite(writeOk)
                /\ errorText' = <<>>
                /\ uuidCount' = uuidCount + 1
                /\ Mutate(addTransaction(transactions,
                        Transaction(randomUUID(uuidCount + 1), type, amount.val,
                                    description,
                                    IF category = <<>> THEN Uncategorized ELSE category,
                                    date),
                        localStorage, currentFilter, Shown, writeOk))
    /\ UNCHANGED <<phase, storeType, currentFilter, now, report>>

\* deleteTransaction(id), the store's remove operation
DeleteTransaction(id, writeOk) ==
    /\ phase = "ready"
    /\ MayWrite(writeOk)
    /\ Mutate(deleteTransaction(transactions, id, localStorage, currentFilter, Shown, writeOk))
    /\ UNCHANGED <<phase, storeType, currentFilter, errorText, uuidCount, now, report>>

\* a click in the table body: on the delete button of a shown row, or elsewhere
HandleDelete(onButton, row, writeOk) ==
    /\ phase = "ready"
    /\ IF onButton
       THEN /\ row \in 1..Len(tableRows)
            /\ DeleteTransaction(tableRows[row].id, writeOk)
       ELSE /\ row = 0
            /\ writeOk
            /\ consoleError' = <<>>
            /\ uncaught' = FALSE
            /\ UNCHANGED <<phase, transactions, storeType, currentFilter, localStorage,
                           errorText, summary, tableRows, uuidCount, lastSave,
                           writeFailures, now, report>>

HandleFilterClick(filter) ==
    /\ phase = "ready"
    /\ consoleError' = <<>>
    /\ uncaught' = FALSE
    /\ IF filter = <<>>
       THEN UNCHANGED <<currentFilter, tableRows>>
       ELSE /\ currentFilter' = filter
            /\ tableRows' = filterTransactionsByType(transactions, filter)
    /\ UNCHANGED <<phase, transactions, storeType, localStorage, errorText, summary,
                   uuidCount, lastSave, writeFailures, now, report>>

Next ==
    \/ DomContentLoaded
    \/ Reload
    \/ \E type \in TypeOptions, amountText \in AmountTexts,
          descriptionText \in DescriptionTexts, dateText \in DateTexts,
          writeOk \in BOOLEAN :
            HandleSubmit(type, amountText, descriptionText, NoCategory, dateText, writeOk)
    \/ \E id \in IdSpace, writeOk \in BOOLEAN : DeleteTransaction(id, writeOk)
    \/ \E onButton \in BOOLEAN, row \in 0..MaxUuids, writeOk \in BOOLEAN :
            HandleDelete(onButton, row, writeOk)
    \/ \E filter \in FilterTargets : HandleFilterClick(filter)

Spec == Init /\ [][Next]_vars

(***************************************************************************)
(* A session over storage that something else may have written              *)
(***************************************************************************)
SavedList ==
    << Transaction(randomUUID(1), INCOME, 12, <<"t", "e", "a">>, Uncategorized,
                   DateText(WeekMonday)),
       Transaction(randomUUID(2), EXPENSE, 12, <<"t", "e", "a">>, <<"f", "o", "o", "d">>,
                   DateText(WeekMonday)) >>

InitialStorages ==
    { NoItem,
      Item(<<>>),
      Item(<<Punct("[")>>),
      Item(<<WordToken("oops")>>),
      Item(<<Punct("["), Punct("{"), Punct("]")>>),
      Item(JSONstringify(SavedList) \o <<Punct("]")>>),
      Item(<<WordToken("null")>>),
      Item(<<WordToken("true")>>),
      Item(<<NumberToken(5)>>),
      Item(<<StringToken(<<"x">>)>>),
      Item(<<Punct("{"), Punct("}")>>),
      Item(<<Punct("["), WordToken("null"), Punct("]")>>),
      Item(JSONstringify(<<>>)),
      Item(JSONstringify(SubSeq(SavedList, 1, 1))),
      Item(JSONstringify(SavedList)) }

InitAnyBlob ==
    \E storage \in InitialStorages :
        PageLoaded(storage, [day |-> WeekMonday, tick |-> 0], Len(SavedList), 0)

SpecAnyBlob == InitAnyBlob /\ [][Next]_vars

(***************************************************************************)
(* A session that loads a saved list and prints reports                     *)
(***************************************************************************)
ReportDates == { WeekMonday - 1, WeekMonday, WeekMonday + 3, WeekMonday + 6, WeekMonday + 7 }

\* an income of 40, an expense of 10, an expense of 40, on each of the dates
ReportEntries ==
    { [type |-> k[1], amount |-> k[2], date |-> DateText(d)] :
      k \in { <<INCOME, 40>>, <<EXPENSE, 10>>, <<EXPENSE, 40>> }, d \in ReportDates }

ReportLists ==
    { [i \in 1..Len(f) |->
          Transaction(randomUUID(i), f[i].type, f[i].amount, <<"t", "e", "a">>,
                      Uncategorized, f[i].date)] :
      f \in UNION { [1..n -> ReportEntries] : n \in 0..MaxReportLen } }

\* every day of the week, at its first and at its last instant
Clocks == [day : WeekMonday..(WeekMonday + 6), tick : {0, TicksPerDay - 1}]

DownloadReport(range, popupOk) ==
    /\ phase = "ready"
    /\ report' = downloadReport(transactions, range, now, popupOk, NoReport)
    /\ consoleError' = <<>>
    /\ uncaught' = FALSE
    /\ UNCHANGED <<phase, transactions, storeType, currentFilter, localStorage, errorText,
                   summary, tableRows, uuidCount, lastSave, writeFailures, now>>

InitReport ==
    \E list \in ReportLists, clock \in Clocks :
        PageLoaded(Item(JSONstringify(list)), clock, Len(list), 0)

NextReport ==
    \/ DomContentLoaded
    \/ \E range \in {"week", "month"}, popupOk \in BOOLEAN : DownloadReport(range, popupOk)

SpecReport == InitReport /\ [][NextReport]_vars

(***************************************************************************)
(* A session of form submits                                                *)
(***************************************************************************)
NextForm ==
    \/ DomContentLoaded
    \/ \E type \in TypeOptions, amountText \in AmountTexts,
          descriptionText \in DescriptionTexts, categoryText \in CategoryTexts,
          dateText \in DateTexts, writeOk \in BOOLEAN :
            HandleSubmit(type, amountText, descriptionText, categoryText, dateText, writeOk)

SpecForm == Init /\ [][NextForm]_vars

(***************************************************************************)
(* Properties                                                               *)
(***************************************************************************)
Range(seq) == { seq[i] : i \in 1..Len(seq) }

RECURSIVE SumAmounts(_)
SumAmounts(seq) == IF seq = <<>> THEN 0 ELSE Head(seq).amount + SumAmounts(Tail(seq))

\* income: the sum over the income entries; expense: the sum over all others
ExpectedTotals(list) ==
    LET income  == SumAmounts(SelectSeq(list, LAMBDA t : t.type = INCOME))
        expense == SumAmounts(SelectSeq(list, LAMBDA t : t.type # INCOME))
    IN  [income |-> income, expense |-> expense, balance |-> income - expense]

\* the list without its first entry identified by id; the list itself when there is none
RemoveFirst(list, id) ==
    IF \A i \in 1..Len(list) : list[i].id # id THEN list
    ELSE LET at == CHOOSE i \in 1..Len(list) :
                     list[i].id = id /\ \A j \in 1..(i - 1) : list[j].id # id
         IN  [i \in 1..(Len(list) - 1) |-> IF i < at THEN list[i] ELSE list[i + 1]]

BlankText(s) == \A i \in 1..Len(s) : s[i] = " "

\* the amount texts that are not a number, zero, or negative
BadAmountTexts == { <<"a">>, <<"0">>, <<"-", "5">> }

C2_RejectedSubmitChangesNothing ==
    [][\/ /\ errorText' = ValidationMessage
          /\ transactions' = transactions
          /\ localStorage' = localStorage
          /\ uuidCount' = uuidCount
       \/ ~\E amountText \in AmountTexts, descriptionText \in DescriptionTexts,
              dateText \in DateTexts :
              /\ (amountText \in BadAmountTexts \/ BlankText(descriptionText)
                                                \/ dateText = <<>>)
              /\ \E type \in TypeOptions, categoryText \in CategoryTexts,
                    writeOk \in BOOLEAN :
                    HandleSubmit(type, amountText, descriptionText, categoryText,
                                 dateText, writeOk)]_vars

\* a submit was rejected while the store and the storage held an entry
C2_RejectedWithEntries ==
    /\ errorText = ValidationMessage
    /\ Len(transactions) >= 1
    /\ localStorage = Item(JSONstringify(transactions))

C4_LoadAlwaysYieldsList ==
    phase # "loading"
    => /\ phase = "ready"
       /\ ~uncaught
       /\ storeType = "array"
       /\ (lastSave = "none"
           => transactions =
                (IF \E k \in 0..Len(SavedList) :
                       localStorage = Item(JSONstringify(SubSeq(SavedList, 1, k)))
                 THEN SubSeq(SavedList, 1,
                        CHOOSE k \in 0..Len(SavedList) :
                          localStorage = Item(JSONstringify(SubSeq(SavedList, 1, k))))
                 ELSE <<>>))

\* C5: a step in which the storage write fails ends without an exception,
\* leaves the persisted value as it was, leaves the list with the entry added
\* or removed, and renders the totals and the table from that list; the
\* persisted value changes only in a step that saves the full list.
C5_FailedWriteKeepsSession ==
    [][/\ (writeFailures' # writeFailures)
          => /\ ~uncaught'
             /\ lastSave' = "failed"
             /\ localStorage' = localStorage
             /\ \/ /\ Len(transactions') = Len(transactions) + 1
                   /\ SubSeq(transactions', 1, Len(transactions)) = transactions
                \/ \E id \in IdSpace : transactions' = RemoveFirst(transactions, id)
             /\ summary' = ExpectedTotals(transactions')
             /\ tableRows' = (IF currentFilter' = ALL THEN transactions'
                              ELSE SelectSeq(transactions',
                                             LAMBDA t : t.type = currentFilter'))
       /\ (localStorage' # localStorage)
          => /\ lastSave' = "ok"
             /\ writeFailures' = writeFailures
             /\ localStorage' = Item(JSONstringify(transactions'))]_vars

\* a write has failed: the list holds an entry the storage does not
C5_StaleStorage ==
    /\ phase = "ready"
    /\ lastSave = "failed"
    /\ Len(transactions) >= 1
    /\ localStorage # Item(JSONstringify(transactions))
    /\ summary = ExpectedTotals(transactions)
    /\ summary.balance # 0

C7_TypeFilterPartitions ==
    phase = "ready"
    => LET income  == filterTransactionsByType(transactions, INCOME)
           expense == filterTransactionsByType(transactions, EXPENSE)
       IN  /\ filterTransactionsByType(transactions, ALL) = transactions
           /\ Range(income) \cup Range(expense) = Range(transactions)
           /\ Range(income) \cap Range(expense) = {}
           /\ Len(income) + Len(expense) = Len(transactions)
           /\ \A i \in 1..Len(income) : income[i].type = INCOME
           /\ \A i \in 1..Len(expense) : expense[i].type = EXPENSE

\* the store holds an income and an expense, and the table shows the incomes
C7_BothTypes ==
    /\ phase = "ready"
    /\ currentFilter = INCOME
    /\ \E i \in 1..Len(transactions) : transactions[i].type = INCOME
    /\ \E i \in 1..Len(transactions) : transactions[i].type = EXPENSE
    /\ Len(tableRows) < Len(transactions)

\* C8: the totals shown are the sum of the income amounts, the sum of all
\* other amounts, and their difference; so are the totals of a report over
\* the entries of its range.
C8_TotalsAreSums ==
    /\ phase = "ready" => summary = ExpectedTotals(transactions)
    /\ report.written
       => [income |-> report.income, expense |-> report.expense,
           balance |-> report.balance] = ExpectedTotals(report.rows)

\* a report over an income of 40 and an expense of 10
C8_MixedReport ==
    /\ report.written
    /\ Len(report.rows) = 2
    /\ report.rows[1].type = INCOME
    /\ report.rows[2].type = EXPENSE
    /\ report.income = 40
    /\ report.expense = 10
    /\ report.balance = 30
    /\ summary = ExpectedTotals(transactions)

\* the Monday that starts the week of a day (1 January 2024 is a Monday)
MondayOf(day) == CHOOSE m \in (day - 6)..day : m % 7 = 1

\* C9: the week report holds, in store order, exactly the transactions dated
\* from the Monday that starts the current week to the Sunday six days later.
C9_WeekIsMondayToSunday ==
    (report.written /\ report.range = "week")
    => report.rows =
         SelectSeq(transactions,
                   LAMBDA t : \E d \in MondayOf(now.day)..(MondayOf(now.day) + 6) :
                                t.date = DateText(d))

\* on the Sunday, the entry of the week's Monday is in the report and the
\* entry of the following Monday is not
C9_SundayReport ==
    /\ report.written
    /\ report.range = "week"
    /\ now.day = WeekMonday + 6
    /\ Len(transactions) = 2
    /\ transactions[1].date = DateText(WeekMonday)
    /\ transactions[2].date = DateText(WeekMonday + 7)
    /\ report.rows = <<transactions[1]>>

\* C10 as stated: remove(id) removes the first entry identified by id, leaves
\* the others in order, and the full list is persisted afterwards.
C10_DeleteAlwaysPersists ==
    [][\A id \in IdSpace, writeOk \in BOOLEAN :
          DeleteTransaction(id, writeOk)
          => /\ transactions' = RemoveFirst(transactions, id)
             /\ localStorage' = Item(JSONstringify(transactions'))]_vars

\* C10 as amended: remove(id) removes the first entry identified by id and
\* leaves the others in order; the full list is persisted afterwards when the
\* storage write succeeds, and the persisted value is unchanged when it fails.
C10_DeleteRemovesFirstMatch ==
    [][\A id \in IdSpace, writeOk \in BOOLEAN :
          DeleteTransaction(id, writeOk)
          => /\ transactions' = RemoveFirst(transactions, id)
             /\ lastSave' \in {"ok", "failed"}
             /\ lastSave' = "ok" => localStorage' = Item(JSONstringify(transactions'))
             /\ lastSave' = "failed" => localStorage' = localStorage]_vars

\* the second of three entries was deleted and the list of the two others saved
C10_MiddleDeleted ==
    /\ phase = "ready"
    /\ lastSave = "ok"
    /\ Len(transactions) = 2
    /\ transactions[1].id = randomUUID(1)
    /\ transactions[2].id = randomUUID(3)
    /\ localStorage = Item(JSONstringify(transactions))

====
